---- MODULE Spec2Model ----
(***************************************************************************)
(* A model of exporter/util.py: the dictionary helpers merge and           *)
(* filter_keys, the memoize decorator, the make_temp_directory context     *)
(* manager (with with_temp_directory), and the retrying shell executor     *)
(* execute_shell / _retry_execute_shell.                                   *)
(*                                                                         *)
(* Each helper is independent of the others, so each gets a specification  *)
(* of its own (SpecShell, SpecTemp, SpecMemo, SpecMerge, SpecFilter) over  *)
(* its own variables; the variables of the other helpers stay at their     *)
(* idle values.                                                            *)
(*                                                                         *)
(* Lines 167 and 171 of util.py read  with additional_args'stdout'] as fi: *)
(* (the opening bracket is missing).  They are modelled as the subscript   *)
(* additional_args['stdout'] / additional_args['stderr'] that the          *)
(* neighbouring lines 164 and 165 spell out.                               *)
(***************************************************************************)
EXTENDS Integers, Sequences, FiniteSets, TLC

VARIABLES
    \* ---- execute_shell / _retry_execute_shell
    pc,               \* position inside execute_shell
    kwargs,           \* the keyword arguments execute_shell was called with
    files,            \* the caller's file objects: id -> [mode, closed, writes]
    cmd,              \* the child command: how its successive runs exit
    additional_args,  \* keyword arguments handed to subprocess.check_call
    attempt,          \* local `attempt`
    max_tries,        \* local `max_tries`
    exception,        \* exit status of the CalledProcessError being handled
    runs,             \* exit status of every run of the command, in order
    sleeps,           \* argument of every time.sleep call, in order
    result,           \* how execute_shell ended
    \* ---- make_temp_directory / with_temp_directory
    alive,            \* the interpreter has not exited yet
    fs,               \* the temp directories that exist on disk
    atexit_hooks,     \* directories whose clean_dir is registered with atexit
    scope,            \* per call of a wrapped function: where it is
    scope_dir,        \* per call: the directory mkdtemp returned (0: none)
    next_dir,         \* next fresh directory name mkdtemp hands out
    \* ---- memoize
    cache,            \* obj.cache: key -> cached return value
    invoked,          \* per argument combination: calls of the wrapped obj
    called,           \* per argument combination: calls of memoizer
    n_calls,          \* calls of memoizer so far
    last_call,        \* the latest call of memoizer: its arguments and result
    \* ---- merge
    dict_a, dict_b,   \* the dictionaries as they are now
    arg_a, arg_b,     \* the dictionaries as they were passed
    merge_result,     \* what merge returned
    merge_pc,
    \* ---- filter_keys
    mapping,          \* the mapping as it is now
    arg_mapping,      \* the mapping as it was passed
    keys,             \* the `keys` argument: <<>> (None) or <<collection>>
    filter_result,    \* what filter_keys returned
    filter_pc

shell_vars == <<pc, kwargs, files, cmd, additional_args, attempt, max_tries,
                exception, runs, sleeps, result>>
temp_vars == <<alive, fs, atexit_hooks, scope, scope_dir, next_dir>>
memo_vars == <<cache, invoked, called, n_calls, last_call>>
merge_vars == <<dict_a, dict_b, arg_a, arg_b, merge_result, merge_pc>>
filter_vars == <<mapping, arg_mapping, keys, filter_result, filter_pc>>
vars == <<shell_vars, temp_vars, memo_vars, merge_vars, filter_vars>>

\* Python's None, and the empty dictionary {}.
None == "None"
EmptyDict == [k \in {} |-> None]

\* dict.get(key): the value, or None when the key is absent.
Get(d, k) == IF k \in DOMAIN d THEN d[k] ELSE None

\* d[k] = v on a copy of d.
Put(d, k, v) == [x \in DOMAIN d \cup {k} |-> IF x = k THEN v ELSE d[x]]

(***************************************************************************)
(* Bounds.                                                                 *)
(***************************************************************************)
MaxTries == 3      \* max_tries is drawn from -1 .. MaxTries
MaxFails == 3      \* a command fails 0 .. MaxFails times before it succeeds
MaxStatus == 2     \* a failing command exits with 1 .. MaxStatus
MaxScopes == 3     \* calls of a function wrapped by with_temp_directory
MaxCalls == 3      \* calls of a memoized function
NumKeys == 2       \* dictionary keys are 1 .. NumKeys
NumVals == 2       \* dictionary values are None and NumVals others

(***************************************************************************)
(* Shell retries (util.py 152-202).                                        *)
(***************************************************************************)
BASE_RETRY_DELAY_IN_SECONDS == 5

FileIds == {"f1", "f2"}
\* "rw": opened for reading and writing (w+, r+, a SpooledTemporaryFile);
\* "w":  opened for writing only, as open(path, 'w') does.
FileModes == {"rw", "w"}

NoResult == [kind |-> "none", exc |-> "", status |-> 0]
Returned(v) == [kind |-> "return", exc |-> "", status |-> v]
Raised(e, st) == [kind |-> "raise", exc |-> e, status |-> st]

\* The exit status of the n-th run of the command.
ExitStatus(c, n) == IF c.always \/ n <= c.fails THEN c.status ELSE 0

Commands ==
    {[always |-> TRUE, fails |-> 0, status |-> s] : s \in 1..MaxStatus}
    \cup {[always |-> FALSE, fails |-> k, status |-> s] :
              k \in 0..MaxFails, s \in 1..MaxStatus}

\* The keyword bags execute_shell can be called with: each of stdout_file,
\* stderr_file and max_tries present or not (out, err: a file or "absent";
\* mt: <<n>> or <<>>).
KwargsOf(out, err, mt) ==
    [k \in (IF out = "absent" THEN {} ELSE {"stdout_file"})
           \cup (IF err = "absent" THEN {} ELSE {"stderr_file"})
           \cup (IF mt = <<>> THEN {} ELSE {"max_tries"}) |->
        IF k = "stdout_file" THEN out
        ELSE IF k = "stderr_file" THEN err
        ELSE mt[1]]

ShellIdle ==
    /\ pc = "idle"
    /\ kwargs = EmptyDict
    /\ files = [f \in FileIds |-> [mode |-> "rw", closed |-> FALSE, writes |-> 0]]
    /\ cmd = [always |-> FALSE, fails |-> 0, status |-> 1]
    /\ additional_args = EmptyDict
    /\ attempt = 0
    /\ max_tries = 0
    /\ exception = 0
    /\ runs = <<>>
    /\ sleeps = <<>>
    /\ result = NoResult

ShellInit ==
    /\ pc = "start"
    /\ \E out \in FileIds \cup {"absent"}, err \in FileIds \cup {"absent"},
          mt \in {<<>>} \cup {<<n>> : n \in -1..MaxTries} :
          kwargs = KwargsOf(out, err, mt)
    /\ files \in [FileIds -> {[mode |-> m, closed |-> FALSE, writes |-> 0] :
                                  m \in FileModes}]
    /\ cmd \in Commands
    /\ additional_args = EmptyDict
    /\ attempt = 0
    /\ max_tries = 0
    /\ exception = 0
    /\ runs = <<>>
    /\ sleeps = <<>>
    /\ result = NoResult

\* execute_shell, lines 189-202, up to the call of _retry_execute_shell.
StdArgs(kw) ==
    [k \in (IF "stdout_file" \in DOMAIN kw THEN {"stdout"} ELSE {})
           \cup (IF "stderr_file" \in DOMAIN kw THEN {"stderr"} ELSE {}) |->
        IF k = "stdout" THEN kw["stdout_file"] ELSE kw["stderr_file"]]

InitialAttempt == 1

DefaultMaxTries == 1

execute_shell ==
    /\ pc = "start"
    /\ additional_args' = StdArgs(kwargs)
    /\ attempt' = InitialAttempt
    /\ max_tries' = IF "max_tries" \in DOMAIN kwargs THEN kwargs["max_tries"]
                    ELSE DefaultMaxTries
    /\ pc' = "check_call"
    /\ UNCHANGED <<kwargs, files, cmd, exception, runs, sleeps, result>>
    /\ UNCHANGED <<temp_vars, memo_vars, merge_vars, filter_vars>>

\* The files the child process is given.
GivenFiles == {additional_args[k] : k \in DOMAIN additional_args}

\* subprocess.check_call, lines 157-158.  Popen asks each file object for its
\* descriptor first: a closed file raises ValueError there, before any child
\* is started, and `except CalledProcessError` does not catch it.
check_call ==
    /\ pc = "check_call"
    /\ IF \E f \in GivenFiles : files[f].closed
       THEN /\ result' = Raised("ValueError", 0)
            /\ pc' = "done"
            /\ UNCHANGED <<files, runs, exception>>
       ELSE LET status == ExitStatus(cmd, Len(runs) + 1) IN
            /\ runs' = Append(runs, status)
            /\ files' = [f \in FileIds |->
                            IF f \in GivenFiles
                            THEN [files[f] EXCEPT !.writes = @ + 1]
                            ELSE files[f]]
            /\ IF status = 0
               THEN /\ result' = Returned(0)
                    /\ pc' = "done"
                    /\ UNCHANGED exception
               ELSE /\ exception' = status
                    /\ pc' = "log_stdout"
                    /\ UNCHANGED result
    /\ UNCHANGED <<kwargs, cmd, additional_args, attempt, max_tries, sleeps>>
    /\ UNCHANGED <<temp_vars, memo_vars, merge_vars, filter_vars>>

\* Lines 164-169 for stream = "stdout", lines 171-173 for "stderr":
\*   additional_args[stream]   KeyError when the caller gave no such file
\*   with ... as fi:           ValueError when the file is closed already
\*       fi.readlines()        IOError when it is not open for reading
\*   (leaving the with block)  closes the file, also when readlines raised
\* None of these is caught: each replaces the CalledProcessError in flight.
LogStream(stream, next) ==
    IF stream \notin DOMAIN additional_args
    THEN /\ result' = Raised("KeyError", 0)
         /\ pc' = "done"
         /\ UNCHANGED files
    ELSE LET f == additional_args[stream] IN
         IF files[f].closed
         THEN /\ result' = Raised("ValueError", 0)
              /\ pc' = "done"
              /\ UNCHANGED files
         ELSE /\ files' = [files EXCEPT ![f].closed = TRUE]
              /\ IF files[f].mode = "w"
                 THEN /\ result' = Raised("IOError", 0)
                      /\ pc' = "done"
                 ELSE /\ pc' = next
                      /\ UNCHANGED result

log_stdout ==
    /\ pc = "log_stdout"
    /\ LogStream("stdout", "log_stderr")
    /\ UNCHANGED <<kwargs, cmd, additional_args, attempt, max_tries,
                   exception, runs, sleeps>>
    /\ UNCHANGED <<temp_vars, memo_vars, merge_vars, filter_vars>>

log_stderr ==
    /\ pc = "log_stderr"
    /\ LogStream("stderr", "backoff")
    /\ UNCHANGED <<kwargs, cmd, additional_args, attempt, max_tries,
                   exception, runs, sleeps>>
    /\ UNCHANGED <<temp_vars, memo_vars, merge_vars, filter_vars>>

RECURSIVE Pow2(_)
Pow2(n) == IF n = 0 THEN 1 ELSE 2 * Pow2(n - 1)

\* Line 179.
ExponentialDelay(a) == BASE_RETRY_DELAY_IN_SECONDS * Pow2(a)

\* Lines 178-181: attempt += 1, then the blocking sleep.
backoff ==
    /\ pc = "backoff"
    /\ attempt' = attempt + 1
    /\ sleeps' = Append(sleeps, ExponentialDelay(attempt + 1))
    /\ pc' = "retry"
    /\ UNCHANGED <<kwargs, files, cmd, additional_args, max_tries, exception,
                   runs, result>>
    /\ UNCHANGED <<temp_vars, memo_vars, merge_vars, filter_vars>>

\* Line 184.
Exhausted(a, m) == a >= m

\* Lines 183-186: re-raise the CalledProcessError, or recurse.
retry ==
    /\ pc = "retry"
    /\ IF Exhausted(attempt, max_tries)
       THEN /\ result' = Raised("CalledProcessError", exception)
            /\ pc' = "done"
       ELSE /\ pc' = "check_call"
            /\ UNCHANGED result
    /\ UNCHANGED <<kwargs, files, cmd, additional_args, attempt, max_tries,
                   exception, runs, sleeps>>
    /\ UNCHANGED <<temp_vars, memo_vars, merge_vars, filter_vars>>

ShellNext ==
    \/ execute_shell
    \/ check_call
    \/ log_stdout
    \/ log_stderr
    \/ backoff
    \/ retry

(***************************************************************************)
(* Temp directories (util.py 79-117).                                      *)
(*                                                                         *)
(* A scope is one call of a function wrapped by with_temp_directory.  The  *)
(* body of the scope is the wrapped function; it is taken not to remove    *)
(* the directory itself.                                                   *)
(***************************************************************************)
Scopes == 1..MaxScopes

TempIdle ==
    /\ alive = TRUE
    /\ fs = {}
    /\ atexit_hooks = {}
    /\ scope = [s \in Scopes |-> "none"]
    /\ scope_dir = [s \in Scopes |-> 0]
    /\ next_dir = 1

TempInit == TempIdle

\* A clean_dir that removes nothing.
clean_dir_keeps(temp_dir, dirs) == dirs

\* clean_dir, lines 85-87, on the directories that exist.
clean_dir(temp_dir, dirs) ==
    IF temp_dir \in dirs THEN dirs \ {temp_dir} ELSE dirs

\* Lines 103-104 and 82-92: the wrapped function lacks exactly one argument,
\* so make_temp_directory runs up to its yield: mkdtemp, atexit.register.
make_temp_directory(s) ==
    /\ alive
    /\ scope[s] = "none"
    /\ fs' = fs \cup {next_dir}
    /\ atexit_hooks' = atexit_hooks \cup {next_dir}
    /\ scope_dir' = [scope_dir EXCEPT ![s] = next_dir]
    /\ next_dir' = next_dir + 1
    /\ scope' = [scope EXCEPT ![s] = "body"]
    /\ UNCHANGED alive
    /\ UNCHANGED <<shell_vars, memo_vars, merge_vars, filter_vars>>

\* Lines 107-108: every argument was given, the function is called as it is.
wrapped_plain(s) ==
    /\ alive
    /\ scope[s] = "none"
    /\ scope' = [scope EXCEPT ![s] = "plain"]
    /\ UNCHANGED <<alive, fs, atexit_hooks, scope_dir, next_dir>>
    /\ UNCHANGED <<shell_vars, memo_vars, merge_vars, filter_vars>>

\* The body returns: the generator resumes after its yield, line 94.
body_returns(s) ==
    /\ alive
    /\ scope[s] = "body"
    /\ fs' = clean_dir(scope_dir[s], fs)
    /\ scope' = [scope EXCEPT ![s] = "returned"]
    /\ UNCHANGED <<alive, atexit_hooks, scope_dir, next_dir>>
    /\ UNCHANGED <<shell_vars, memo_vars, merge_vars, filter_vars>>

\* The body raises: contextmanager throws the exception into the generator
\* at its yield, line 92.  Nothing there catches it (no try/finally), so
\* line 94 is not reached and the exception leaves the with block.
body_raises(s) ==
    /\ alive
    /\ scope[s] = "body"
    /\ scope' = [scope EXCEPT ![s] = "raised"]
    /\ UNCHANGED <<alive, fs, atexit_hooks, scope_dir, next_dir>>
    /\ UNCHANGED <<shell_vars, memo_vars, merge_vars, filter_vars>>

RECURSIVE RunHooks(_, _)
RunHooks(hooks, dirs) ==
    IF hooks = {} THEN dirs
    ELSE LET d == CHOOSE x \in hooks : TRUE
         IN RunHooks(hooks \ {d}, clean_dir(d, dirs))

\* The interpreter exits: every function registered at line 90 is called.
process_exit ==
    /\ alive
    /\ alive' = FALSE
    /\ fs' = RunHooks(atexit_hooks, fs)
    /\ UNCHANGED <<atexit_hooks, scope, scope_dir, next_dir>>
    /\ UNCHANGED <<shell_vars, memo_vars, merge_vars, filter_vars>>

TempNext ==
    \/ \E s \in Scopes : make_temp_directory(s)
    \/ \E s \in Scopes : wrapped_plain(s)
    \/ \E s \in Scopes : body_returns(s)
    \/ \E s \in Scopes : body_raises(s)
    \/ process_exit

(***************************************************************************)
(* Memoization (util.py 64-74).                                            *)
(*                                                                         *)
(* Argument values: the integer 1, the string '1', and two instances of a  *)
(* class whose repr does not show the instance's state (a __repr__ that    *)
(* prints only the class name, say).                                       *)
(***************************************************************************)
Values ==
    {[kind |-> "int", n |-> 1], [kind |-> "str", n |-> 1]}
    \cup {[kind |-> "obj", n |-> i] : i \in {1, 2}}

\* repr(v), which str() of a tuple or dict applies to each element.
Repr(v) ==
    CASE v.kind = "int" -> ToString(v.n)
      [] v.kind = "str" -> "'" \o ToString(v.n) \o "'"
      [] OTHER -> "<Obj>"

\* str(args) for a tuple of at most two elements.
StrArgs(args) ==
    CASE Len(args) = 0 -> "()"
      [] Len(args) = 1 -> "(" \o Repr(args[1]) \o ",)"
      [] OTHER -> "(" \o Repr(args[1]) \o ", " \o Repr(args[2]) \o ")"

\* str(kwargs) for at most the one keyword k.
StrKwargs(kw) ==
    IF DOMAIN kw = {} THEN "{}" ELSE "{'k': " \o Repr(kw["k"]) \o "}"

\* Line 69.
Key(args, kw) == StrArgs(args) \o StrKwargs(kw)

ArgTuples == {<<>>} \cup {<<v>> : v \in Values}
KwargDicts == {[k \in {} |-> [kind |-> "int", n |-> 1]]}
              \cup {[k \in {"k"} |-> v] : v \in Values}
ArgCombos == {[args |-> a, kwargs |-> kw] : a \in ArgTuples, kw \in KwargDicts}

\* The wrapped function: its return value tells which arguments it was
\* computed from.
obj(args, kw) == [args |-> args, kwargs |-> kw]

NoCall == [args |-> <<>>, kwargs |-> [k \in {} |-> [kind |-> "int", n |-> 1]],
           key |-> "", hit |-> FALSE,
           value |-> [args |-> <<>>, kwargs |-> [k \in {} |-> [kind |-> "int", n |-> 1]]]]

MemoIdle ==
    /\ cache = [k \in {} |-> obj(<<>>, <<>>)]
    /\ invoked = [c \in ArgCombos |-> 0]
    /\ called = [c \in ArgCombos |-> 0]
    /\ n_calls = 0
    /\ last_call = NoCall

MemoInit == MemoIdle

\* A memoizer that never finds its key.
InCacheNever(key, c) == FALSE

\* Line 70.
InCache(key, c) == key \in DOMAIN c

\* memoizer, lines 68-72.
memoizer(args, kw) ==
    LET key == Key(args, kw)
        c == [args |-> args, kwargs |-> kw]
        hit == InCache(key, cache)
        cache1 == IF hit THEN cache
                  ELSE [x \in DOMAIN cache \cup {key} |->
                           IF x = key THEN obj(args, kw) ELSE cache[x]]
    IN /\ n_calls < MaxCalls
       /\ n_calls' = n_calls + 1
       /\ cache' = cache1
       /\ invoked' = IF hit THEN invoked ELSE [invoked EXCEPT ![c] = @ + 1]
       /\ called' = [called EXCEPT ![c] = @ + 1]
       /\ last_call' = [args |-> args, kwargs |-> kw, key |-> key,
                        hit |-> hit, value |-> cache1[key]]
       /\ UNCHANGED <<shell_vars, temp_vars, merge_vars, filter_vars>>

MemoNext == \E a \in ArgTuples, kw \in KwargDicts : memoizer(a, kw)

(***************************************************************************)
(* Dictionary utilities (util.py 29-59).                                   *)
(***************************************************************************)
Keys == 1..NumKeys
ValueNames == <<"a", "b", "c", "d">>
\* A dictionary value: None, the empty dictionary "{}", or another value.
Vals == {None, "{}"} \cup {ValueNames[i] : i \in 1..NumVals}
Dicts == UNION {[K -> Vals] : K \in SUBSET Keys}

\* merge, lines 37-42: the loop over set(dict_a) | set(dict_b).
RECURSIVE MergeLoop(_, _, _, _)
MergeLoop(ks, a, b, res) ==
    IF ks = {} THEN res
    ELSE LET key == CHOOSE k \in ks : TRUE
             value == Get(a, key)
         IN MergeLoop(ks \ {key}, a, b,
                      Put(res, key, IF value = None THEN Get(b, key) ELSE value))

\* A merge in which dict_b takes precedence.
merge_b_first(a, b) == MergeLoop(DOMAIN a \cup DOMAIN b, b, a, EmptyDict)

merge(a, b) == MergeLoop(DOMAIN a \cup DOMAIN b, a, b, EmptyDict)

MergeIdle ==
    /\ dict_a = EmptyDict
    /\ dict_b = EmptyDict
    /\ arg_a = EmptyDict
    /\ arg_b = EmptyDict
    /\ merge_result = EmptyDict
    /\ merge_pc = "idle"

MergeInit ==
    /\ dict_a \in Dicts
    /\ dict_b \in Dicts
    /\ arg_a = dict_a
    /\ arg_b = dict_b
    /\ merge_result = EmptyDict
    /\ merge_pc = "call"

call_merge ==
    /\ merge_pc = "call"
    /\ merge_result' = merge(dict_a, dict_b)
    /\ merge_pc' = "done"
    /\ UNCHANGED <<dict_a, dict_b, arg_a, arg_b>>
    /\ UNCHANGED <<shell_vars, temp_vars, memo_vars, filter_vars>>

MergeNext == call_merge

\* The `keys` argument is <<>> for None and <<K>> for a collection of the
\* keys K.  Line 51: `if keys:` is false for None and for an empty collection.
Truthy(ks) == ks # <<>> /\ ks[1] # {}

\* A filter_keys without the placeholder entries.
filter_keys_no_placeholders(m, ks) ==
    IF Truthy(ks) THEN [k \in {x \in DOMAIN m : x \in ks[1]} |-> m[k]] ELSE m

\* Lines 51-59.
filter_keys(m, ks) ==
    IF Truthy(ks)
    THEN LET placeholders == [k \in ks[1] |-> "{}"]
             selected == [k \in {x \in DOMAIN m : x \in ks[1]} |-> m[k]]
         IN [k \in DOMAIN placeholders \cup DOMAIN selected |->
                IF k \in DOMAIN selected THEN selected[k] ELSE placeholders[k]]
    ELSE m

FilterIdle ==
    /\ mapping = EmptyDict
    /\ arg_mapping = EmptyDict
    /\ keys = <<>>
    /\ filter_result = EmptyDict
    /\ filter_pc = "idle"

FilterInit ==
    /\ mapping \in Dicts
    /\ arg_mapping = mapping
    /\ keys \in {<<>>} \cup {<<K>> : K \in SUBSET (1..(NumKeys + 1))}
    /\ filter_result = EmptyDict
    /\ filter_pc = "call"

call_filter_keys ==
    /\ filter_pc = "call"
    /\ filter_result' = filter_keys(mapping, keys)
    /\ filter_pc' = "done"
    /\ UNCHANGED <<mapping, arg_mapping, keys>>
    /\ UNCHANGED <<shell_vars, temp_vars, memo_vars, merge_vars>>

FilterNext == call_filter_keys

(***************************************************************************)
(* Specifications: one per helper; the other helpers' variables stay idle. *)
(***************************************************************************)
InitShell == ShellInit /\ TempIdle /\ MemoIdle /\ MergeIdle /\ FilterIdle

SpecShell == InitShell /\ [][ShellNext]_vars

InitTemp == TempInit /\ ShellIdle /\ MemoIdle /\ MergeIdle /\ FilterIdle

SpecTemp == InitTemp /\ [][TempNext]_vars

InitMemo == MemoInit /\ ShellIdle /\ TempIdle /\ MergeIdle /\ FilterIdle

SpecMemo == InitMemo /\ [][MemoNext]_vars

InitMerge == MergeInit /\ ShellIdle /\ TempIdle /\ MemoIdle /\ FilterIdle

SpecMerge == InitMerge /\ [][MergeNext]_vars

InitFilter == FilterInit /\ ShellIdle /\ TempIdle /\ MemoIdle /\ MergeIdle

SpecFilter == InitFilter /\ [][FilterNext]_vars

(***************************************************************************)
(* Claims about execute_shell (checked under SpecShell).                   *)
(***************************************************************************)
Done == pc = "done"
Failures == Cardinality({i \in 1..Len(runs) : runs[i] # 0})
\* The delays BASE*2^2, BASE*2^3, ..., BASE*2^(k+1).
Delays(k) == [i \in 1..k |-> BASE_RETRY_DELAY_IN_SECONDS * Pow2(i + 1)]

\* C1: with max_tries = N >= 1 and a command that fails on every attempt,
\* execute_shell runs the command exactly N times and then raises the
\* command's failure.
C1_AlwaysFailingRunsNTimes ==
    (Done /\ cmd.always /\ max_tries >= 1) =>
        /\ Len(runs) = max_tries
        /\ result = Raised("CalledProcessError", cmd.status)

\* C2: a command that fails k times and then succeeds, with max_tries > k,
\* ends in success after k+1 runs and k sleeps of BASE*2^2 .. BASE*2^(k+1).
C2_SucceedsAfterKFailures ==
    (Done /\ ~cmd.always /\ max_tries > cmd.fails) =>
        /\ result = Returned(0)
        /\ Len(runs) = cmd.fails + 1
        /\ sleeps = Delays(cmd.fails)

\* C3: whenever execute_shell ends in failure, the error the caller gets is
\* the CalledProcessError of the command, with the child's exit status.
C3_OriginalFailureSurfaces ==
    (Done /\ result.kind = "raise") =>
        result = Raised("CalledProcessError", cmd.status)

\* C4: the caller's sinks are never closed by the executor, and every run of
\* the command has written into the sinks it was given.
C4_SinksStayOpen ==
    /\ \A f \in FileIds : ~files[f].closed
    /\ \A f \in GivenFiles : files[f].writes = Len(runs)

\* C5: called with max_tries < 1, execute_shell never runs the command,
\* never sleeps, and ends by raising.
C5_NonPositiveMaxTriesFailsFast ==
    ("max_tries" \in DOMAIN kwargs /\ kwargs["max_tries"] < 1) =>
        /\ runs = <<>>
        /\ sleeps = <<>>
        /\ Done => result.kind = "raise"

\* C10: when execute_shell has ended, it has slept once per failed attempt,
\* the n-th time for BASE*2^(n+1) seconds.
C10_OneSleepPerFailedAttempt ==
    Done => sleeps = Delays(Failures)

(***************************************************************************)
(* Claims about make_temp_directory (checked under SpecTemp).              *)
(***************************************************************************)
\* C6, as stated: the directory exists while the body runs, and is gone once
\* the scope has been left, by return or by exception, and once the process
\* has exited.
C6_GoneAfterAnyExit ==
    \A s \in Scopes :
        /\ (alive /\ scope[s] = "body") => scope_dir[s] \in fs
        /\ scope[s] \in {"returned", "raised"} => scope_dir[s] \notin fs
        /\ ~alive => scope_dir[s] \notin fs

\* C6, amended: the directory exists while the body runs; it is gone once the
\* body has returned; when the body raised it stays on disk until the process
\* exits; it is gone once the process has exited.
C6_GoneAfterReturnOrProcessExit ==
    \A s \in Scopes :
        /\ (alive /\ scope[s] = "body") => scope_dir[s] \in fs
        /\ scope[s] = "returned" => scope_dir[s] \notin fs
        /\ (alive /\ scope[s] = "raised") => scope_dir[s] \in fs
        /\ ~alive => scope_dir[s] \notin fs

\* One scope has returned, one has raised, one is still open, and the process
\* has exited.
C6_Witness ==
    /\ ~alive
    /\ \E s, t, u \in Scopes :
          scope[s] = "returned" /\ scope[t] = "raised" /\ scope[u] = "body"

(***************************************************************************)
(* Claims about memoize (checked under SpecMemo).                          *)
(***************************************************************************)
RECURSIVE Sum(_, _)
Sum(f, S) == IF S = {} THEN 0
             ELSE LET x == CHOOSE y \in S : TRUE IN f[x] + Sum(f, S \ {x})

KeyTable == [c \in ArgCombos |-> Key(c.args, c.kwargs)]
KeyOf(c) == KeyTable[c]
SameKey(c) == {d \in ArgCombos : KeyOf(d) = KeyOf(c)}
HasCalled == last_call.key # ""

\* C7, as stated: the wrapped function is invoked exactly once per argument
\* combination that was called, and a call returns the value computed from
\* its own arguments.
C7_OncePerArguments ==
    /\ \A c \in ArgCombos : called[c] > 0 => invoked[c] = 1
    /\ HasCalled => last_call.value = obj(last_call.args, last_call.kwargs)

\* C7, amended: the wrapped function is invoked exactly once per key
\* str(args) + str(kwargs) that was called, and a call returns the value
\* computed at the first call with its key.
C7_OncePerKey ==
    /\ \A c \in ArgCombos : called[c] > 0 => Sum(invoked, SameKey(c)) = 1
    /\ HasCalled =>
          /\ last_call.key \in DOMAIN cache
          /\ last_call.value = cache[last_call.key]
          /\ KeyOf(last_call.value) = last_call.key
          /\ invoked[last_call.value] = 1

\* A call was answered from the cache with a value computed from other
\* arguments, after a repeated call with the same arguments.
C7_Witness ==
    /\ last_call.hit
    /\ last_call.value # obj(last_call.args, last_call.kwargs)
    /\ \E c \in ArgCombos : called[c] >= 2 /\ invoked[c] = 1

(***************************************************************************)
(* Claims about merge and filter_keys (SpecMerge, SpecFilter).             *)
(***************************************************************************)
\* C8: merge(a, b) has the keys of a and b together; a key maps to a's value
\* when a has it with a value other than None, otherwise to b's value (None
\* when b lacks the key); a and b are as they were passed.
C8_MergeContract ==
    merge_pc = "done" =>
        /\ DOMAIN merge_result = DOMAIN arg_a \cup DOMAIN arg_b
        /\ \A k \in DOMAIN merge_result :
              merge_result[k] =
                  IF k \in DOMAIN arg_a /\ arg_a[k] # None THEN arg_a[k]
                  ELSE IF k \in DOMAIN arg_b THEN arg_b[k]
                  ELSE None
        /\ dict_a = arg_a
        /\ dict_b = arg_b

\* merge has returned for an a holding None for one key that b has a value
\* for, and a value for another key that b maps elsewhere.
C8_Witness ==
    /\ merge_pc = "done"
    /\ \E j, k \in Keys :
          /\ j \in DOMAIN arg_a /\ arg_a[j] = None
          /\ j \in DOMAIN arg_b /\ arg_b[j] # None
          /\ merge_result[j] = arg_b[j]
          /\ k \in DOMAIN arg_a /\ arg_a[k] # None
          /\ k \in DOMAIN arg_b /\ arg_b[k] \notin {None, arg_a[k]}
          /\ merge_result[k] = arg_a[k]

\* C9: for non-empty keys K, filter_keys(m, K) has exactly the keys K, with
\* m's value where m has the key and the placeholder {} where it has not; for
\* empty or None keys it equals m; m is as it was passed.
C9_FilterKeysContract ==
    filter_pc = "done" =>
        /\ IF keys # <<>> /\ keys[1] # {}
           THEN /\ DOMAIN filter_result = keys[1]
                /\ \A k \in keys[1] :
                      filter_result[k] =
                          IF k \in DOMAIN arg_mapping THEN arg_mapping[k]
                          ELSE "{}"
           ELSE filter_result = arg_mapping
        /\ mapping = arg_mapping

\* filter_keys has returned for keys of which one is in the mapping and one
\* is not, and a mapping with a key that was not asked for.
C9_Witness ==
    /\ filter_pc = "done"
    /\ keys # <<>>
    /\ \E i, j, k \in 1..(NumKeys + 1) :
          /\ i \in keys[1] /\ i \in DOMAIN arg_mapping
          /\ arg_mapping[i] \notin {None, "{}"}
          /\ j \in keys[1] /\ j \notin DOMAIN arg_mapping
          /\ k \notin keys[1] /\ k \in DOMAIN arg_mapping

====
